---- MODULE Spec2Model ----
(***************************************************************************)
(* InMemoryProvider of katana's storage provider                           *)
(* (crates/katana/storage/provider/src/providers/in_memory/mod.rs).        *)
(*                                                                         *)
(* The provider owns three components:                                     *)
(*   storage            RwLock<CacheDb<()>>       the chain index          *)
(*   state              Arc<InMemoryStateDb>      the current state        *)
(*   historical_states  RwLock<HistoricalStates>  one snapshot per block   *)
(* A writer thread runs insert_block_with_states_and_receipts step by      *)
(* step; a reader thread runs the read handlers, one lock acquisition per  *)
(* step, so that commits can land between the sub-lookups of one read.     *)
(***************************************************************************)
EXTENDS Integers, Sequences, FiniteSets, TLC

\* Bound of the model: the number of calls of the writing operations in one
\* behaviour (insert_block_with_states_and_receipts and, where the
\* specification has them, the StateWriter and ContractClassWriter operations).
MaxCommits == 2

\* The threads that call the commit: one when readers run beside it, two when
\* commits compete.
Writers == {"w1"}
Committers == {"w1", "w2"}
Readers == {"r1"}
NoThread == "none"

(***************************************************************************)
(* Option values and maps.                                                 *)
(***************************************************************************)
None == [tag |-> "None"]
Some(v) == [tag |-> "Some", val |-> v]
\* A panic of the handler (unwrap / expect / slice index out of range).
Fault == [tag |-> "Fault"]

IsSome(o) == o.tag = "Some"

EmptyMap == [x \in {} |-> 0]
Get(m, k) == IF k \in DOMAIN m THEN Some(m[k]) ELSE None
Put(m, k, v) == [x \in (DOMAIN m) \cup {k} |-> IF x = k THEN v ELSE m[x]]

\* Iterator::extend of a map with the pairs of a sequence, in order
\* (a later pair with the same key replaces an earlier one).
RECURSIVE Extend(_, _)
Extend(m, pairs) ==
    IF pairs = << >> THEN m
    ELSE Extend(Put(m, Head(pairs)[1], Head(pairs)[2]), Tail(pairs))

(***************************************************************************)
(* The inputs of the commit: sealed blocks, their state updates, receipts. *)
(* A block hash identifies the block (its number, header, status, body);   *)
(* two different blocks may carry the same number.                         *)
(***************************************************************************)
BlockNumbers == {0, 1}
BlockHashes == {"h0a", "h0b", "h1a", "h1b"}
TxHashes == {"A", "B", "C"}
Addresses == {"addr1", "addr2"}
StorageKeys == {"key1"}

\* BlockHashOrNumber
Num(n) == [num |-> n]
Hash(h) == [hash |-> h]
IsNum(id) == "num" \in DOMAIN id
BlockIds == {Num(n) : n \in BlockNumbers} \cup {Hash(h) : h \in BlockHashes}

\* TxWithHash { hash, transaction }: the payload is the one the hash commits to.
TxOf(h) == [calldata |-> h]
TxWithHash(h, tx) == [hash |-> h, transaction |-> tx]

SealedBlock(h, n, root, status, txhashes) ==
    [block |-> [header |-> [hash |-> h,
                            header |-> [number |-> n, state_root |-> root]],
                body |-> [i \in 1..Len(txhashes) |->
                             TxWithHash(txhashes[i], TxOf(txhashes[i]))]],
     status |-> status]

SealedBlocks ==
    { SealedBlock("h0a", 0, "root0a", "AcceptedOnL2", <<"A", "B">>),
      SealedBlock("h0b", 0, "root0b", "AcceptedOnL1", <<"B">>),
      SealedBlock("h1a", 1, "root1a", "AcceptedOnL2", <<"C">>),
      SealedBlock("h1b", 1, "root1b", "AcceptedOnL1", << >>) }

\* StateUpdates { storage_updates, nonce_updates, contract_updates }
StateUpdates(su, nu, cu) ==
    [storage_updates |-> su, nonce_updates |-> nu, contract_updates |-> cu]

Slot(a, k) == <<a, k>>

\* The state diff the execution of each block produced.
StatesOf(h) ==
    CASE h = "h0a" -> StateUpdates(Put(EmptyMap, Slot("addr1", "key1"), 5),
                                   Put(EmptyMap, "addr1", 1), EmptyMap)
      [] h = "h0b" -> StateUpdates(Put(EmptyMap, Slot("addr1", "key1"), 7),
                                   EmptyMap, Put(EmptyMap, "addr2", "class2"))
      [] h = "h1a" -> StateUpdates(Put(EmptyMap, Slot("addr1", "key1"), 9),
                                   Put(EmptyMap, "addr1", 2), EmptyMap)
      [] OTHER     -> StateUpdates(Put(EmptyMap, Slot("addr2", "key1"), 3),
                                   EmptyMap, Put(EmptyMap, "addr1", "class1"))

\* The receipt the execution produced for transaction j of block h.
ReceiptOf(h, j) == [block |-> h, index |-> j]

\* The arguments of one call: the block, its state updates, and a receipts
\* vector of any length up to the length of the body.
CommitArgs ==
    UNION { { [block |-> b,
               states |-> StatesOf(b.block.header.hash),
               receipts |-> [j \in 1..k |-> ReceiptOf(b.block.header.hash, j - 1)]] :
              k \in 0..Len(b.block.body) } : b \in SealedBlocks }

NoArgs == [block |-> "none"]

(***************************************************************************)
(* State.                                                                  *)
(***************************************************************************)
VARIABLES
    storage,            \* CacheDb behind self.storage
    state,              \* InMemoryStateDb behind self.state
    historical_states,  \* HistoricalStates behind self.historical_states
    wbit,               \* the writer that holds or waits for self.storage
    rcount,             \* read guards of self.storage held, per reader
    wpc,                \* position of each writer in the commit
    wargs,              \* arguments of the commit in progress
    wsnap,              \* the local `snapshot` of the commit in progress
    reader,             \* position and locals of each reader
    log,                \* history: arguments of the commits, in order, and the caller
    hist,               \* history: the chain index after each commit
    class_tables,       \* the class tables behind self.state, shared by all snapshots
    writes,             \* history: the number of direct writes so far
    touched             \* history: a direct write happened since the last commit began

\* The variables only the StateWriter and ContractClassWriter operations change.
direct == <<class_tables, writes, touched>>

vars == <<storage, state, historical_states, wbit, rcount, wpc, wargs, wsnap,
          reader, log, hist, class_tables, writes, touched>>

\* CacheDb::new(()): every table empty, the latest pointers at their defaults.
ZeroHash == "0x0"
NewCacheDb ==
    [latest_block_hash |-> ZeroHash,
     latest_block_number |-> 0,
     block_numbers |-> EmptyMap,
     block_hashes |-> EmptyMap,
     block_headers |-> EmptyMap,
     block_statusses |-> EmptyMap,
     block_body_indices |-> EmptyMap,
     transactions |-> << >>,
     transaction_hashes |-> EmptyMap,
     transaction_numbers |-> EmptyMap,
     transaction_block |-> EmptyMap,
     receipts |-> << >>,
     state_update |-> EmptyMap]

\* InMemoryStateDb::new(()): no storage slot, nonce or class hash set.
NewStateDb == [storage |-> EmptyMap, nonce |-> EmptyMap, class_hash |-> EmptyMap]

\* The class tables of a new InMemoryStateDb: no class declared.
NewClassTables ==
    [compiled_classes |-> EmptyMap,
     sierra_classes |-> EmptyMap,
     compiled_class_hashes |-> EmptyMap]

(***************************************************************************)
(* insert_block_with_states_and_receipts: the chain-index part, executed   *)
(* under self.storage.write().                                             *)
(***************************************************************************)
StoredBlockBodyIndices(offset, count) == [tx_offset |-> offset, tx_count |-> count]

\* let tx_offset = storage.transactions.len() as u64;
TxOffsetFromReceipts(S) == Len(S.receipts)
TxOffset(S) == Len(S.transactions)

\* storage.block_numbers.insert(block_hash, block_number);
InsertBlockNumberDropped(m, block_hash, block_number) == m
InsertBlockNumber(m, block_hash, block_number) == Put(m, block_hash, block_number)

\* The body indices are stored only for a block that has transactions.
InsertBodyIndicesUnlessEmpty(m, block_number, block_body_indices) ==
    IF block_body_indices.tx_count = 0 THEN m
    ELSE Put(m, block_number, block_body_indices)

\* storage.block_body_indices.insert(block_number, block_body_indices);
InsertBodyIndices(m, block_number, block_body_indices) ==
    Put(m, block_number, block_body_indices)

\* storage.receipts.extend(receipts);
ExtendReceipts(rs, receipts) == rs \o receipts

InsertBlock(S, a) ==
    LET block_hash == a.block.block.header.hash
        block_number == a.block.block.header.header.number
        block_header == a.block.block.header.header
        body == a.block.block.body
        tx_count == Len(body)
        tx_offset == TxOffset(S)
        txs_id == [i \in 1..tx_count |-> <<(i - 1) + tx_offset, body[i].hash>>]
        txs == [i \in 1..tx_count |-> body[i].transaction]
        txs_num == [i \in 1..tx_count |-> <<txs_id[i][2], txs_id[i][1]>>]
        txs_block == [i \in 1..tx_count |-> <<txs_id[i][1], block_number>>]
    IN  [latest_block_hash |-> block_hash,
         latest_block_number |-> block_number,
         block_numbers |-> InsertBlockNumber(S.block_numbers, block_hash, block_number),
         block_hashes |-> Put(S.block_hashes, block_number, block_hash),
         block_headers |-> Put(S.block_headers, block_number, block_header),
         block_statusses |-> Put(S.block_statusses, block_number, a.block.status),
         block_body_indices |-> InsertBodyIndices(S.block_body_indices, block_number,
                                    StoredBlockBodyIndices(tx_offset, tx_count)),
         transactions |-> S.transactions \o txs,
         transaction_hashes |-> Extend(S.transaction_hashes, txs_id),
         transaction_numbers |-> Extend(S.transaction_numbers, txs_num),
         transaction_block |-> Extend(S.transaction_block, txs_block),
         receipts |-> ExtendReceipts(S.receipts, a.receipts),
         state_update |-> Put(S.state_update, block_number, a.states)]

(***************************************************************************)
(* The current state and the registry of snapshots.                        *)
(***************************************************************************)
\* Overwrite m with every binding of u (last write wins).
Merge(m, u) ==
    [x \in (DOMAIN m) \cup (DOMAIN u) |-> IF x \in DOMAIN u THEN u[x] ELSE m[x]]

\* InMemoryStateDb::insert_updates: the whole diff, as a unit.
InsertUpdates(st, u) ==
    [storage |-> Merge(st.storage, u.storage_updates),
     nonce |-> Merge(st.nonce, u.nonce_updates),
     class_hash |-> Merge(st.class_hash, u.contract_updates)]

\* InMemoryStateDb::create_snapshot: an immutable copy of the tables as they are.
CreateSnapshot(st) == st

\* HistoricalStates::insert: a second snapshot for a number is a fatal condition.
HistoricalInsert(H, n, snapshot) ==
    IF n \in DOMAIN H THEN Fault ELSE Some(Put(H, n, snapshot))

\* StateProvider reads of a state or of a snapshot.
StorageAt(st, a, k) == Get(st.storage, Slot(a, k))
NonceAt(st, a) == Get(st.nonce, a)
ClassHashAt(st, a) == Get(st.class_hash, a)

(***************************************************************************)
(* The read handlers, each evaluated against one chain index S (and one    *)
(* registry H): what a call returns when no commit lands inside it.        *)
(***************************************************************************)
\* Vec::get / slice::get with a 0-based index.
SeqGet(s, i) == IF i >= 0 /\ i < Len(s) THEN Some(s[i + 1]) ELSE None
Min(a, b) == IF a < b THEN a ELSE b

latest_hash(S) == S.latest_block_hash
\* The largest block number in the store instead of the pointer.
latest_number_largest(S) ==
    IF DOMAIN S.block_hashes = {} THEN 0
    ELSE CHOOSE n \in DOMAIN S.block_hashes : \A m \in DOMAIN S.block_hashes : m <= n

latest_number(S) == S.latest_block_number
block_hash_by_num(S, n) == Get(S.block_hashes, n)
block_number_by_hash(S, h) == Get(S.block_numbers, h)

\* match id { Num(num) => Some(num), Hash(hash) => block_numbers.get(&hash) }
BlockNumOf(S, id) ==
    IF IsNum(id) THEN Some(id.num) ELSE block_number_by_hash(S, id.hash)

\* block_num.and_then(|num| table.get(&num).cloned())
Lookup(table, block_num) ==
    IF IsSome(block_num) THEN Get(table, block_num.val) ELSE None

header(S, id) == Lookup(S.block_headers, BlockNumOf(S, id))

block_status(S, id) == Lookup(S.block_statusses, BlockNumOf(S, id))

block_body_indices(S, id) == Lookup(S.block_body_indices, BlockNumOf(S, id))

\* transactions.iter().enumerate().skip(offset).take(count): the numbers yielded.
TxsEnd(S, ind) == Min(ind.tx_offset + ind.tx_count, Len(S.transactions))

transactions_by_block(S, id) ==
    LET indices == block_body_indices(S, id) IN
    IF ~IsSome(indices) THEN None
    ELSE LET offset == indices.val.tx_offset
             end == TxsEnd(S, indices.val)
         IN  IF \E n \in offset..(end - 1) : n \notin DOMAIN S.transaction_hashes
             THEN Fault
             ELSE Some([j \in 1..(end - offset) |->
                          TxWithHash(S.transaction_hashes[offset + j - 1],
                                     S.transactions[offset + j])])

Block(hdr, body) == [header |-> hdr, body |-> body]

\* unwrap_or_default of the body, inside Ok(Some(Block { header, body })).
BlockOf(hdr, txs) ==
    IF txs = Fault THEN Fault
    ELSE Some(Block(hdr, IF IsSome(txs) THEN txs.val ELSE << >>))

block(S, id) ==
    LET hdr == header(S, id) IN
    IF ~IsSome(hdr) THEN None ELSE BlockOf(hdr.val, transactions_by_block(S, id))

\* Result<Vec<_>>: the Ok of a handler that returns a list.
Ok(v) == [tag |-> "Ok", val |-> v]

\* for num in range { if let Some(hash) = transaction_hashes.get(&num) { push } }
\* over the range start..end (end excluded).
RECURSIVE transaction_hashes_in_range(_, _, _)
transaction_hashes_in_range(S, start, end) ==
    IF start >= end THEN << >>
    ELSE (IF start \in DOMAIN S.transaction_hashes
          THEN <<S.transaction_hashes[start]>> ELSE << >>)
         \o transaction_hashes_in_range(S, start + 1, end)

BlockWithTxHashes(hdr, body) == [header |-> hdr, body |-> body]

\* block_with_tx_hashes without the return on a missing header: the expect on
\* the body indices is reached for a block that is not in the store.
block_with_tx_hashes_unguarded(S, id) ==
    LET hdr == header(S, id)
        tx_range == block_body_indices(S, id)
    IN  IF ~IsSome(tx_range) THEN Fault
        ELSE Some(BlockWithTxHashes(hdr.val,
                 transaction_hashes_in_range(S, tx_range.val.tx_offset,
                     tx_range.val.tx_offset + tx_range.val.tx_count)))

\* self.header(id)? or return Ok(None); then
\* self.block_body_indices(id)?.expect("should exist")
block_with_tx_hashes(S, id) ==
    LET hdr == header(S, id)
        tx_range == block_body_indices(S, id)
    IN  IF ~IsSome(hdr) THEN None
        ELSE IF ~IsSome(tx_range) THEN Fault
        ELSE Some(BlockWithTxHashes(hdr.val,
                 transaction_hashes_in_range(S, tx_range.val.tx_offset,
                     tx_range.val.tx_offset + tx_range.val.tx_count)))

\* for num in range { if let Some(block) = self.block(Num(num))? { push } }
\* over the range first..=last, onto the blocks collected so far.
RECURSIVE blocks_in_range(_, _, _, _)
blocks_in_range(S, first, last, blocks) ==
    IF first > last THEN Ok(blocks)
    ELSE LET b == block(S, Num(first)) IN
         IF b = Fault THEN Fault
         ELSE blocks_in_range(S, first + 1, last,
                              IF IsSome(b) THEN Append(blocks, b.val) ELSE blocks)

\* The transaction with number n and its hash: transactions.get(n)? and
\* transaction_hashes.get(&n)?
TxNumbered(S, n) ==
    IF IsSome(SeqGet(S.transactions, n)) /\ n \in DOMAIN S.transaction_hashes
    THEN Some(TxWithHash(S.transaction_hashes[n], S.transactions[n + 1]))
    ELSE None

transaction_by_hash(S, h) ==
    LET num == Get(S.transaction_numbers, h) IN
    IF IsSome(num) THEN TxNumbered(S, num.val) ELSE None

\* transaction_by_block_and_idx without `if idx >= tx_count { return Ok(None) }`.
transaction_by_block_and_idx_unbounded(S, id, idx) ==
    LET indices == block_body_indices(S, id) IN
    IF ~IsSome(indices) THEN None
    ELSE TxNumbered(S, indices.val.tx_offset + idx)

transaction_by_block_and_idx(S, id, idx) ==
    LET indices == block_body_indices(S, id) IN
    IF ~IsSome(indices) THEN None
    ELSE IF idx >= indices.val.tx_count THEN None
    ELSE TxNumbered(S, indices.val.tx_offset + idx)

\* One read guard: transaction_numbers, then transaction_block and
\* block_hashes with expect.
transaction_block_num_and_hash(S, h) ==
    LET number == Get(S.transaction_numbers, h)
        block_num == Lookup(S.transaction_block, number)
        block_hash == Lookup(S.block_hashes, block_num)
    IN  IF ~IsSome(number) THEN None
        ELSE IF ~IsSome(block_num) \/ ~IsSome(block_hash) THEN Fault
        ELSE Some(<<block_num.val, block_hash.val>>)

transaction_count_by_block(S, id) ==
    LET indices == block_body_indices(S, id) IN
    IF IsSome(indices) THEN Some(indices.val.tx_count) ELSE None

transaction_status(S, h) ==
    LET tx_block == Lookup(S.transaction_block, Get(S.transaction_numbers, h)) IN
    IF IsSome(tx_block) THEN block_status(S, Num(tx_block.val)) ELSE None

receipt_by_hash(S, h) ==
    LET num == Get(S.transaction_numbers, h) IN
    IF IsSome(num) THEN SeqGet(S.receipts, num.val) ELSE None

\* receipts[offset..offset + count]: a range past the end of the vector panics.
receipts_by_block(S, id) ==
    LET indices == block_body_indices(S, id) IN
    IF ~IsSome(indices) THEN None
    ELSE LET offset == indices.val.tx_offset
             count == indices.val.tx_count
         IN  IF offset + count > Len(S.receipts) THEN Fault
             ELSE Some(SubSeq(S.receipts, offset + 1, offset + count))

state_update(S, id) == Lookup(S.state_update, BlockNumOf(S, id))

state_root(S, id) ==
    LET hdr == Lookup(S.block_headers, BlockNumOf(S, id)) IN
    IF IsSome(hdr) THEN Some(hdr.val.state_root) ELSE None

historical(S, H, id) == Lookup(H, BlockNumOf(S, id))

(***************************************************************************)
(* The lock of self.storage (parking_lot::RwLock).  A writer first takes   *)
(* the writer bit, then waits until the readers have left; read() is not   *)
(* recursive: it blocks while the writer bit is set, also for a thread     *)
(* that already holds a read guard.                                        *)
(***************************************************************************)
ReadLockFree == wbit = NoThread
NoReaders == \A r \in Readers : rcount[r] = 0

\* The locals of a read in progress: the selector, the resolved number, the
\* header and body indices found so far, the iteration of the body, the result.
ReaderLocals(op, id, pc, num) ==
    [op |-> op, id |-> id, pc |-> pc, num |-> num, hdr |-> None, ind |-> None,
     i |-> 0, acc |-> << >>, res |-> None]

IdleReader == ReaderLocals("none", Num(0), "idle", 0)

Init ==
    /\ storage = NewCacheDb
    /\ state = NewStateDb
    /\ historical_states = EmptyMap
    /\ wbit = NoThread
    /\ rcount = [r \in Readers |-> 0]
    /\ wpc = [w \in Committers |-> "idle"]
    /\ wargs = [w \in Committers |-> NoArgs]
    /\ wsnap = [w \in Committers |-> None]
    /\ reader = [r \in Readers |-> IdleReader]
    /\ log = << >>
    /\ hist = <<NewCacheDb>>
    /\ class_tables = NewClassTables
    /\ writes = 0
    /\ touched = FALSE

(***************************************************************************)
(* The writer: insert_block_with_states_and_receipts, step by step.        *)
(***************************************************************************)
WriterAtRest(w) == wpc[w] \in {"idle", "returned", "panicked"}

\* The commits called so far: those in the history and those that have not
\* reached the chain index yet.
CommitsBegun == Len(log) + Cardinality({w \in Committers : wpc[w] \in {"lock", "wait"}})

\* The calls of the writing operations so far.
WritesBegun == CommitsBegun + writes

\* The call, up to self.storage.write().
CommitCall(w, a) ==
    /\ WriterAtRest(w)
    /\ WritesBegun < MaxCommits
    /\ wpc' = [wpc EXCEPT ![w] = "lock"]
    /\ wargs' = [wargs EXCEPT ![w] = a]
    /\ touched' = FALSE
    /\ UNCHANGED <<storage, state, historical_states, wbit, rcount, wsnap, reader,
                   log, hist, class_tables, writes>>

\* self.storage.write() takes the writer bit when no other writer has it, and
\* then waits for the readers to leave.
CommitLock(w) ==
    /\ wpc[w] = "lock"
    /\ wbit = NoThread
    /\ wbit' = w
    /\ wpc' = [wpc EXCEPT ![w] = "wait"]
    /\ UNCHANGED <<storage, state, historical_states, rcount, wargs, wsnap, reader,
                   log, hist, direct>>

\* The entry of the history for a commit: its arguments and its caller.
Logged(a, w) == [block |-> a.block, states |-> a.states, receipts |-> a.receipts, by |-> w]

\* The chain index is updated under the write guard, and the guard is dropped
\* before the diff is applied and the snapshot is taken.
CommitIndexThenUnlock(w) ==
    /\ wpc[w] = "wait"
    /\ wbit = w
    /\ NoReaders
    /\ storage' = InsertBlock(storage, wargs[w])
    /\ wpc' = [wpc EXCEPT ![w] = "indexed"]
    /\ log' = Append(log, Logged(wargs[w], w))
    /\ hist' = Append(hist, storage')
    /\ wbit' = NoThread
    /\ UNCHANGED <<state, historical_states, rcount, wargs, wsnap, reader, direct>>

\* The write guard is granted; lines 394-429 update the chain index under it.
CommitIndex(w) ==
    /\ wpc[w] = "wait"
    /\ wbit = w
    /\ NoReaders
    /\ storage' = InsertBlock(storage, wargs[w])
    /\ wpc' = [wpc EXCEPT ![w] = "indexed"]
    /\ log' = Append(log, Logged(wargs[w], w))
    /\ hist' = Append(hist, storage')
    /\ UNCHANGED <<state, historical_states, wbit, rcount, wargs, wsnap, reader, direct>>

\* insert_updates on tables that the snapshots issued so far share with the
\* current state: the overwrite shows through every one of them.
CommitStateInPlace(w) ==
    /\ wpc[w] = "indexed"
    /\ state' = InsertUpdates(state, wargs[w].states)
    /\ historical_states' = [n \in DOMAIN historical_states |-> state']
    /\ wpc' = [wpc EXCEPT ![w] = "updated"]
    /\ UNCHANGED <<storage, wbit, rcount, wargs, wsnap, reader, log, hist, direct>>

\* The snapshot is taken first and the diff applied after it: lines 431 and
\* 433 in the other order.
CommitStateAfterSnapshot(w) ==
    /\ wpc[w] = "indexed"
    /\ wsnap' = [wsnap EXCEPT ![w] = Some(CreateSnapshot(state))]
    /\ state' = InsertUpdates(state, wargs[w].states)
    /\ wpc' = [wpc EXCEPT ![w] = "snapped"]
    /\ UNCHANGED <<storage, historical_states, wbit, rcount, wargs, reader, log, hist,
                   direct>>

\* self.state.insert_updates(states);
CommitState(w) ==
    /\ wpc[w] = "indexed"
    /\ state' = InsertUpdates(state, wargs[w].states)
    /\ wpc' = [wpc EXCEPT ![w] = "updated"]
    /\ UNCHANGED <<storage, historical_states, wbit, rcount, wargs, wsnap, reader, log, hist, direct>>

\* let snapshot = self.state.create_snapshot();
CommitSnapshot(w) ==
    /\ wpc[w] = "updated"
    /\ wsnap' = [wsnap EXCEPT ![w] = Some(CreateSnapshot(state))]
    /\ wpc' = [wpc EXCEPT ![w] = "snapped"]
    /\ UNCHANGED <<storage, state, historical_states, wbit, rcount, wargs, reader, log, hist, direct>>

\* self.historical_states.write().insert(block_number, Box::new(snapshot));
\* then Ok(()), or the unwinding of the panic; both drop the write guard.
CommitRegister(w) ==
    /\ wpc[w] = "snapped"
    /\ LET n == wargs[w].block.block.header.header.number
           inserted == HistoricalInsert(historical_states, n, wsnap[w].val)
       IN  \/ /\ IsSome(inserted)
              /\ historical_states' = inserted.val
              /\ wpc' = [wpc EXCEPT ![w] = "returned"]
           \/ /\ inserted = Fault
              /\ historical_states' = historical_states
              /\ wpc' = [wpc EXCEPT ![w] = "panicked"]
    /\ wbit' = NoThread
    /\ wargs' = [wargs EXCEPT ![w] = NoArgs]
    /\ wsnap' = [wsnap EXCEPT ![w] = None]
    /\ UNCHANGED <<storage, state, rcount, reader, log, hist, direct>>

(***************************************************************************)
(* StateWriter and ContractClassWriter: each operation is one insertion    *)
(* under the lock of one table of self.state; none takes self.storage.     *)
(***************************************************************************)
\* The values the direct writes carry.
StorageValues == {8}
Nonces == {4}
ClassHashes == {"class3"}
CompiledClasses == {"compiled3"}
SierraClasses == {"sierra3"}
CompiledClassHashes == {"compiled_hash3"}

\* self.state.storage.write().entry(address).or_default()
\*     .insert(storage_key, storage_value);
SetStorage(address, storage_key, storage_value) ==
    /\ WritesBegun < MaxCommits
    /\ state' = [state EXCEPT
                     !.storage = Put(@, Slot(address, storage_key), storage_value)]
    /\ writes' = writes + 1
    /\ touched' = TRUE
    /\ UNCHANGED <<storage, historical_states, wbit, rcount, wpc, wargs, wsnap,
                   reader, log, hist, class_tables>>

\* self.state.contract_state.write().entry(address).or_default().class_hash = class_hash;
SetClassHashOfContract(address, class_hash) ==
    /\ WritesBegun < MaxCommits
    /\ state' = [state EXCEPT !.class_hash = Put(@, address, class_hash)]
    /\ writes' = writes + 1
    /\ touched' = TRUE
    /\ UNCHANGED <<storage, historical_states, wbit, rcount, wpc, wargs, wsnap,
                   reader, log, hist, class_tables>>

\* self.state.contract_state.write().entry(address).or_default().nonce = nonce;
SetNonce(address, nonce) ==
    /\ WritesBegun < MaxCommits
    /\ state' = [state EXCEPT !.nonce = Put(@, address, nonce)]
    /\ writes' = writes + 1
    /\ touched' = TRUE
    /\ UNCHANGED <<storage, historical_states, wbit, rcount, wpc, wargs, wsnap,
                   reader, log, hist, class_tables>>

\* A write of one class table: the contract state and the chain index stay.
ClassTableWrite(tables) ==
    /\ WritesBegun < MaxCommits
    /\ class_tables' = tables
    /\ writes' = writes + 1
    /\ UNCHANGED <<storage, state, historical_states, wbit, rcount, wpc, wargs,
                   wsnap, reader, log, hist, touched>>

\* self.state.shared_contract_classes.compiled_classes.write().insert(hash, class);
SetClass(hash, class) ==
    ClassTableWrite([class_tables EXCEPT !.compiled_classes = Put(@, hash, class)])

\* self.state.shared_contract_classes.sierra_classes.write().insert(hash, sierra);
SetSierraClass(hash, sierra) ==
    ClassTableWrite([class_tables EXCEPT !.sierra_classes = Put(@, hash, sierra)])

\* self.state.compiled_class_hashes.write().insert(hash, compiled_hash);
SetCompiledClassHashOfClassHash(hash, compiled_hash) ==
    ClassTableWrite([class_tables EXCEPT
                        !.compiled_class_hashes = Put(@, hash, compiled_hash)])

(***************************************************************************)
(* The reader: the read handlers, one step per acquisition of              *)
(* self.storage.read().  A guard taken inside the closure of an and_then   *)
(* or of a map is taken while the guard of the enclosing expression is     *)
(* still held.                                                             *)
(***************************************************************************)
Probe(id, a, k) == [block |-> id, addr |-> a, key |-> k]

ReaderAtRest(r) == reader[r].pc = "idle"

\* Where each handler starts: a Num selector needs no resolution.
Entry(op, id) ==
    CASE op \in {"header", "block_with_tx_hashes"} ->
             IF IsNum(id) THEN "header_get" ELSE "header_outer"
      [] op = "block_status" -> IF IsNum(id) THEN "status_get" ELSE "status_resolve"
      [] op = "block" -> IF IsNum(id) THEN "block_header" ELSE "block_resolve"
      [] OTHER -> IF IsNum(id) THEN "txs_indices" ELSE "txs_resolve"

Returned(rec, res) ==
    [ReaderLocals(rec.op, rec.id, "done", 0) EXCEPT !.res = res]

\* What header hands back: to its caller, or to block_with_tx_hashes(), which
\* returns Ok(None) without a header and goes on to block_body_indices(id).
HeaderReturned(rec, hdr) ==
    IF rec.op = "block_with_tx_hashes" /\ IsSome(hdr)
    THEN [rec EXCEPT !.pc = IF IsNum(rec.id) THEN "indices_get" ELSE "indices_resolve",
                     !.hdr = hdr.val]
    ELSE Returned(rec, hdr)

\* What transactions_by_block hands back: to its caller, or to block().
TxsReturned(rec, txs) ==
    Returned(rec, IF rec.op = "block" THEN BlockOf(rec.hdr, txs) ELSE txs)

\* The call of a handler that takes a block selector.
ReadCall(r, op, id) ==
    /\ ReaderAtRest(r)
    /\ reader' = [reader EXCEPT ![r] =
           ReaderLocals(op, id, Entry(op, id), IF IsNum(id) THEN id.num ELSE 0)]
    /\ UNCHANGED <<storage, state, historical_states, wbit, rcount, wpc, wargs,
                   wsnap, log, hist, direct>>

\* The call of transaction_status(hash).
TxStatusCall(r, h) ==
    /\ ReaderAtRest(r)
    /\ reader' = [reader EXCEPT ![r] =
           ReaderLocals("transaction_status", h, "txstatus_outer", 0)]
    /\ UNCHANGED <<storage, state, historical_states, wbit, rcount, wpc, wargs,
                   wsnap, log, hist, direct>>

\* The call of transaction_block_num_and_hash(hash).
TxBlockCall(r, h) ==
    /\ ReaderAtRest(r)
    /\ reader' = [reader EXCEPT ![r] =
           ReaderLocals("transaction_block_num_and_hash", h, "txblock_get", 0)]
    /\ UNCHANGED <<storage, state, historical_states, wbit, rcount, wpc, wargs,
                   wsnap, log, hist, direct>>

\* A client that reads storage slot (a, k) through latest() and then calls
\* historical(id).
ProbeCall(r, id, a, k) ==
    /\ ReaderAtRest(r)
    /\ reader' = [reader EXCEPT ![r] =
           ReaderLocals("latest_then_historical", Probe(id, a, k), "probe_latest",
                        IF IsNum(id) THEN id.num ELSE 0)]
    /\ UNCHANGED <<storage, state, historical_states, wbit, rcount, wpc, wargs,
                   wsnap, log, hist, direct>>

\* One step of reader r that takes and drops a read guard: the locals become rec.
ReadStep(r, rec) ==
    /\ ReadLockFree
    /\ reader' = [reader EXCEPT ![r] = rec]
    /\ UNCHANGED <<storage, state, historical_states, wbit, rcount, wpc, wargs,
                   wsnap, log, hist, direct>>

\* One step of reader r that takes a read guard and leaves `held` guards held.
ReadStepHolding(r, rec, held) ==
    /\ ReadLockFree
    /\ reader' = [reader EXCEPT ![r] = rec]
    /\ rcount' = [rcount EXCEPT ![r] = held]
    /\ UNCHANGED <<storage, state, historical_states, wbit, wpc, wargs, wsnap,
                   log, hist, direct>>

\* header(Num): Ok(self.storage.read().block_headers.get(&num).cloned())
HeaderGet(r) ==
    /\ reader[r].pc = "header_get"
    /\ ReadStep(r, HeaderReturned(reader[r], Get(storage.block_headers, reader[r].num)))

\* header(Hash): self.storage.read().block_numbers.get(&hash) ...
HeaderOuter(r) ==
    /\ reader[r].pc = "header_outer"
    /\ LET num == Get(storage.block_numbers, reader[r].id.hash) IN
       IF IsSome(num)
       THEN ReadStepHolding(r, [reader[r] EXCEPT !.pc = "header_inner", !.num = num.val], 1)
       ELSE ReadStepHolding(r, HeaderReturned(reader[r], None), 0)

\* ... .and_then(|num| self.storage.read().block_headers.get(num).cloned())
HeaderInner(r) ==
    /\ reader[r].pc = "header_inner"
    /\ ReadStepHolding(r, HeaderReturned(reader[r],
                              Get(storage.block_headers, reader[r].num)), 0)

\* block_with_tx_hashes: block_body_indices(Hash) resolves the hash again;
\* without a number it returns None and expect("should exist") panics.
IndicesResolve(r) ==
    /\ reader[r].pc = "indices_resolve"
    /\ LET num == Get(storage.block_numbers, reader[r].id.hash) IN
       ReadStep(r, IF IsSome(num)
                   THEN [reader[r] EXCEPT !.pc = "indices_get", !.num = num.val]
                   ELSE Returned(reader[r], Fault))

\* What block_with_tx_hashes returns with the hashes collected.
HashesReturned(rec, hashes) == Returned(rec, Some(BlockWithTxHashes(rec.hdr, hashes)))

\* block_num.and_then(|num| self.storage.read().block_body_indices.get(&num).cloned()),
\* the expect, and the entry of transaction_hashes_in_range(tx_range.into())
IndicesGet(r) ==
    /\ reader[r].pc = "indices_get"
    /\ LET ind == Get(storage.block_body_indices, reader[r].num) IN
       ReadStep(r, IF ~IsSome(ind) THEN Returned(reader[r], Fault)
                   ELSE IF ind.val.tx_count = 0 THEN HashesReturned(reader[r], << >>)
                   ELSE [reader[r] EXCEPT !.pc = "hashes_get", !.ind = ind.val,
                                          !.i = ind.val.tx_offset])

\* transaction_hashes_in_range, one iteration:
\* if let Some(hash) = self.storage.read().transaction_hashes.get(&num).cloned()
HashesGet(r) ==
    /\ reader[r].pc = "hashes_get"
    /\ LET num == reader[r].i
           hash == Get(storage.transaction_hashes, num)
           hashes == IF IsSome(hash) THEN Append(reader[r].acc, hash.val)
                     ELSE reader[r].acc
       IN  ReadStep(r, IF num + 1 < reader[r].ind.tx_offset + reader[r].ind.tx_count
                       THEN [reader[r] EXCEPT !.i = num + 1, !.acc = hashes]
                       ELSE HashesReturned(reader[r], hashes))

\* block_status(Hash): match self.storage.read().block_numbers.get(&hash).copied()
StatusResolve(r) ==
    /\ reader[r].pc = "status_resolve"
    /\ LET num == Get(storage.block_numbers, reader[r].id.hash) IN
       ReadStep(r, IF IsSome(num)
                   THEN [reader[r] EXCEPT !.pc = "status_get", !.num = num.val]
                   ELSE Returned(reader[r], None))

\* Ok(self.storage.read().block_statusses.get(&num).cloned())
StatusGet(r) ==
    /\ reader[r].pc = "status_get"
    /\ ReadStep(r, Returned(reader[r], Get(storage.block_statusses, reader[r].num)))

\* block(Hash): self.storage.read().block_numbers.get(&hash).cloned()
BlockResolve(r) ==
    /\ reader[r].pc = "block_resolve"
    /\ LET num == Get(storage.block_numbers, reader[r].id.hash) IN
       ReadStep(r, IF IsSome(num)
                   THEN [reader[r] EXCEPT !.pc = "block_header", !.num = num.val]
                   ELSE Returned(reader[r], None))

\* block_num.and_then(|num| self.storage.read().block_headers.get(&num).cloned()),
\* then the call of transactions_by_block(&self, id)
BlockHeader(r) ==
    /\ reader[r].pc = "block_header"
    /\ LET hdr == Get(storage.block_headers, reader[r].num) IN
       ReadStep(r, IF IsSome(hdr)
                   THEN [reader[r] EXCEPT
                            !.pc = IF IsNum(reader[r].id)
                                   THEN "txs_indices" ELSE "txs_resolve",
                            !.hdr = hdr.val]
                   ELSE Returned(reader[r], None))

\* transactions_by_block(Hash): self.storage.read().block_numbers.get(&hash).cloned()
TxsResolve(r) ==
    /\ reader[r].pc = "txs_resolve"
    /\ LET num == Get(storage.block_numbers, reader[r].id.hash) IN
       ReadStep(r, IF IsSome(num)
                   THEN [reader[r] EXCEPT !.pc = "txs_indices", !.num = num.val]
                   ELSE TxsReturned(reader[r], None))

\* block_num.and_then(|num| self.storage.read().block_body_indices.get(&num).cloned())
TxsIndices(r) ==
    /\ reader[r].pc = "txs_indices"
    /\ LET ind == Get(storage.block_body_indices, reader[r].num) IN
       ReadStep(r, IF IsSome(ind)
                   THEN [reader[r] EXCEPT !.pc = "txs_outer", !.ind = ind.val]
                   ELSE TxsReturned(reader[r], None))

\* self.storage.read().transactions.iter().enumerate().skip(offset).take(count)
TxsOuter(r) ==
    /\ reader[r].pc = "txs_outer"
    /\ LET offset == reader[r].ind.tx_offset IN
       IF offset < TxsEnd(storage, reader[r].ind)
       THEN ReadStepHolding(r, [reader[r] EXCEPT !.pc = "txs_inner", !.i = offset], 1)
       ELSE ReadStepHolding(r, TxsReturned(reader[r], Some(<< >>)), 0)

\* .map(|(n, tx)| self.storage.read().transaction_hashes.get(&(n as u64)).cloned().unwrap())
TxsInner(r) ==
    /\ reader[r].pc = "txs_inner"
    /\ LET n == reader[r].i
           hash == Get(storage.transaction_hashes, n)
           txs == Append(reader[r].acc, TxWithHash(hash.val, storage.transactions[n + 1]))
       IN  IF ~IsSome(hash)
           THEN ReadStepHolding(r, TxsReturned(reader[r], Fault), 0)
           ELSE IF n + 1 < TxsEnd(storage, reader[r].ind)
           THEN ReadStepHolding(r, [reader[r] EXCEPT !.i = n + 1, !.acc = txs], 1)
           ELSE ReadStepHolding(r, TxsReturned(reader[r], Some(txs)), 0)

\* transaction_status: self.storage.read().transaction_numbers.get(&hash) ...
TxStatusOuter(r) ==
    /\ reader[r].pc = "txstatus_outer"
    /\ LET n == Get(storage.transaction_numbers, reader[r].id) IN
       IF IsSome(n)
       THEN ReadStepHolding(r, [reader[r] EXCEPT !.pc = "txstatus_inner", !.num = n.val], 1)
       ELSE ReadStepHolding(r, Returned(reader[r], None), 0)

\* ... .and_then(|n| self.storage.read().transaction_block.get(n).copied()),
\* then self.block_status(num.into())
TxStatusInner(r) ==
    /\ reader[r].pc = "txstatus_inner"
    /\ LET num == Get(storage.transaction_block, reader[r].num) IN
       IF IsSome(num)
       THEN ReadStepHolding(r, [reader[r] EXCEPT !.pc = "status_get", !.num = num.val], 0)
       ELSE ReadStepHolding(r, Returned(reader[r], None), 0)

\* transaction_block_num_and_hash: the three lookups under one read guard.
TxBlockGet(r) ==
    /\ reader[r].pc = "txblock_get"
    /\ ReadStep(r, Returned(reader[r],
                            transaction_block_num_and_hash(storage, reader[r].id)))

\* latest(), then the read of the slot through the LatestStateProvider
ProbeLatest(r) ==
    /\ reader[r].pc = "probe_latest"
    /\ reader' = [reader EXCEPT ![r] =
           [reader[r] EXCEPT
               !.pc = IF IsNum(reader[r].id.block)
                      THEN "probe_historical" ELSE "probe_resolve",
               !.acc = <<StorageAt(state, reader[r].id.addr, reader[r].id.key)>>]]
    /\ UNCHANGED <<storage, state, historical_states, wbit, rcount, wpc, wargs,
                   wsnap, log, hist, direct>>

\* historical(Hash(hash)): self.block_number_by_hash(hash)?
ProbeResolve(r) ==
    /\ reader[r].pc = "probe_resolve"
    /\ LET num == Get(storage.block_numbers, reader[r].id.block.hash) IN
       ReadStep(r, IF IsSome(num)
                   THEN [reader[r] EXCEPT !.pc = "probe_historical", !.num = num.val]
                   ELSE Returned(reader[r], [latest |-> reader[r].acc[1],
                                             historical |-> None]))

\* self.historical_states.read().get(&num).cloned()
ProbeHistorical(r) ==
    /\ reader[r].pc = "probe_historical"
    /\ reader' = [reader EXCEPT ![r] =
           Returned(reader[r], [latest |-> reader[r].acc[1],
                                historical |-> Get(historical_states, reader[r].num)])]
    /\ UNCHANGED <<storage, state, historical_states, wbit, rcount, wpc, wargs,
                   wsnap, log, hist, direct>>

\* The caller takes the result; the thread is free for its next call.
ReadReturn(r) ==
    /\ reader[r].pc = "done"
    /\ reader' = [reader EXCEPT ![r] = IdleReader]
    /\ UNCHANGED <<storage, state, historical_states, wbit, rcount, wpc, wargs,
                   wsnap, log, hist, direct>>

ReadOps ==
    {"header", "block_status", "block", "block_with_tx_hashes", "transactions_by_block"}

Next ==
    \/ \E w \in Writers, a \in CommitArgs : CommitCall(w, a)
    \/ \E w \in Writers : CommitLock(w)
    \/ \E w \in Writers : CommitIndex(w)
    \/ \E w \in Writers : CommitState(w)
    \/ \E w \in Writers : CommitSnapshot(w)
    \/ \E w \in Writers : CommitRegister(w)
    \/ \E r \in Readers, op \in ReadOps, id \in BlockIds : ReadCall(r, op, id)
    \/ \E r \in Readers, h \in TxHashes : TxStatusCall(r, h)
    \/ \E r \in Readers, h \in TxHashes : TxBlockCall(r, h)
    \/ \E r \in Readers, id \in BlockIds, a \in Addresses, k \in StorageKeys :
           ProbeCall(r, id, a, k)
    \/ \E r \in Readers : HeaderGet(r)
    \/ \E r \in Readers : HeaderOuter(r)
    \/ \E r \in Readers : HeaderInner(r)
    \/ \E r \in Readers : IndicesResolve(r)
    \/ \E r \in Readers : IndicesGet(r)
    \/ \E r \in Readers : HashesGet(r)
    \/ \E r \in Readers : StatusResolve(r)
    \/ \E r \in Readers : StatusGet(r)
    \/ \E r \in Readers : BlockResolve(r)
    \/ \E r \in Readers : BlockHeader(r)
    \/ \E r \in Readers : TxsResolve(r)
    \/ \E r \in Readers : TxsIndices(r)
    \/ \E r \in Readers : TxsOuter(r)
    \/ \E r \in Readers : TxsInner(r)
    \/ \E r \in Readers : TxStatusOuter(r)
    \/ \E r \in Readers : TxStatusInner(r)
    \/ \E r \in Readers : TxBlockGet(r)
    \/ \E r \in Readers : ProbeLatest(r)
    \/ \E r \in Readers : ProbeResolve(r)
    \/ \E r \in Readers : ProbeHistorical(r)
    \/ \E r \in Readers : ReadReturn(r)

Spec == Init /\ [][Next]_vars

\* Two threads that commit, beside callers of the StateWriter and
\* ContractClassWriter operations.
NextWriters ==
    \/ \E w \in Committers, a \in CommitArgs : CommitCall(w, a)
    \/ \E w \in Committers : CommitLock(w)
    \/ \E w \in Committers : CommitIndex(w)
    \/ \E w \in Committers : CommitState(w)
    \/ \E w \in Committers : CommitSnapshot(w)
    \/ \E w \in Committers : CommitRegister(w)
    \/ \E a \in Addresses, k \in StorageKeys, v \in StorageValues : SetStorage(a, k, v)
    \/ \E a \in Addresses, c \in ClassHashes : SetClassHashOfContract(a, c)
    \/ \E a \in Addresses, n \in Nonces : SetNonce(a, n)
    \/ \E h \in ClassHashes, c \in CompiledClasses : SetClass(h, c)
    \/ \E h \in ClassHashes, c \in SierraClasses : SetSierraClass(h, c)
    \/ \E h \in ClassHashes, c \in CompiledClassHashes :
           SetCompiledClassHashOfClassHash(h, c)

SpecWriters == Init /\ [][NextWriters]_vars

(***************************************************************************)
(* Properties.                                                             *)
(***************************************************************************)
NumberOf(a) == a.block.block.header.header.number
HashOf(a) == a.block.block.header.hash
BodyOf(a) == a.block.block.body

\* No commit is in progress.
Quiescent == \A w \in Committers : WriterAtRest(w)
LastArgs == log[Len(log)]
\* The last call of the commit has returned Ok(()).
LastReturned == Len(log) > 0 /\ wpc[LastArgs.by] = "returned"
\* The last call of the commit has ended in the fatal condition.
LastPanicked == Len(log) > 0 /\ wpc[LastArgs.by] = "panicked"
\* The chain index as it was before the last commit.
IndexBefore == hist[Len(hist) - 1]

\* The value the last of the diffs 1..i that writes `key` in table `field`
\* gives it; None when none of them writes it.
RECURSIVE LastWrite(_, _, _)
LastWrite(i, field, key) ==
    IF i = 0 THEN None
    ELSE IF key \in DOMAIN log[i].states[field]
         THEN Some(log[i].states[field][key])
         ELSE LastWrite(i - 1, field, key)

\* The commit that registered the snapshot of block number n: the first one.
RegisteredAt(n) ==
    CHOOSE i \in 1..Len(log) :
        NumberOf(log[i]) = n /\ \A j \in 1..(i - 1) : NumberOf(log[j]) # n

\* A thread is free to call a read handler: the handlers evaluated on the
\* chain index of such a state are the calls that can be made in it, whatever
\* the writer is doing.
CallerFree == \E r \in Readers : ReaderAtRest(r)

WrittenByBlock(v, a, k, n) ==
    \E b \in SealedBlocks :
        /\ b.block.header.header.number = n
        /\ Slot(a, k) \in DOMAIN StatesOf(b.block.header.hash).storage_updates
        /\ v = Some(StatesOf(b.block.header.hash).storage_updates[Slot(a, k)])

\* The number of the block a selector names (for a hash, the number of the
\* block with that hash).
NumberNamed(id) ==
    IF IsNum(id) THEN id.num
    ELSE (CHOOSE b \in SealedBlocks : b.block.header.hash = id.hash).block.header.header.number

\* C2: the commit is externally atomic.  A reader that has seen the diff of
\* block n through latest() finds the snapshot of n when it then calls
\* historical(n).
C2_CommitAtomic ==
    \A r \in Readers :
        (/\ reader[r].pc = "done"
         /\ reader[r].op = "latest_then_historical"
         /\ WrittenByBlock(reader[r].res.latest, reader[r].id.addr, reader[r].id.key,
                           NumberNamed(reader[r].id.block)))
        => IsSome(reader[r].res.historical)

\* C3: a commit of a block number that is already in the store ends in the
\* fatal condition and leaves what is stored for that number unchanged.
C3_DuplicateRejected ==
    (Quiescent /\ Len(log) > 0 /\ NumberOf(LastArgs) \in DOMAIN IndexBefore.block_hashes)
    => LET n == NumberOf(LastArgs) IN
       /\ LastPanicked
       /\ header(storage, Num(n)) = header(IndexBefore, Num(n))
       /\ block_status(storage, Num(n)) = block_status(IndexBefore, Num(n))
       /\ block_body_indices(storage, Num(n)) = block_body_indices(IndexBefore, Num(n))
       /\ state_update(storage, Num(n)) = state_update(IndexBefore, Num(n))
       /\ IsSome(historical(storage, historical_states, Num(n)))

\* C4: after every commit that returns, the receipts array and the
\* transactions array have the same length.
C4_ReceiptsAligned ==
    LastReturned => Len(storage.receipts) = Len(storage.transactions)

\* C5: index alignment.  For every committed block n, receipts_by_block(n) and
\* transactions_by_block(n) return lists whose length is
\* block_body_indices(n).tx_count = transaction_count_by_block(n).
C5_IndexAlignment ==
    Quiescent =>
        \A n \in DOMAIN storage.block_hashes :
            LET indices == block_body_indices(storage, Num(n))
                txs == transactions_by_block(storage, Num(n))
                receipts == receipts_by_block(storage, Num(n))
            IN  /\ IsSome(indices) /\ IsSome(txs) /\ IsSome(receipts)
                /\ Len(txs.val) = indices.val.tx_count
                /\ Len(receipts.val) = indices.val.tx_count
                /\ transaction_count_by_block(storage, Num(n)) = Some(indices.val.tx_count)

\* C6: postcondition of the commit.  Once the commit of block n has returned,
\* every read about n succeeds by number and by hash, and every transaction of
\* the block is found by hash and by position, with the receipt supplied for it.
C6_CommitPostcondition ==
    LastReturned =>
        LET a == LastArgs
            body == BodyOf(a)
        IN  /\ \A id \in {Num(NumberOf(a)), Hash(HashOf(a))} :
                   /\ IsSome(header(storage, id))
                   /\ IsSome(block_status(storage, id))
                   /\ IsSome(block_body_indices(storage, id))
                   /\ IsSome(block(storage, id))
                   /\ IsSome(transactions_by_block(storage, id))
                   /\ IsSome(receipts_by_block(storage, id))
                   /\ IsSome(state_update(storage, id))
                   /\ IsSome(state_root(storage, id))
                   /\ IsSome(historical(storage, historical_states, id))
                   /\ \A j \in 1..Len(body) :
                          transaction_by_block_and_idx(storage, id, j - 1) = Some(body[j])
            /\ \A j \in 1..Len(body) :
                   /\ transaction_by_hash(storage, body[j].hash) = Some(body[j])
                   /\ receipt_by_hash(storage, body[j].hash) = SeqGet(a.receipts, j - 1)
                   /\ IsSome(receipt_by_hash(storage, body[j].hash))

\* A thread inside a call, and whether its next step can be taken.
ReaderInFlight(r) == reader[r].pc \notin {"idle", "done"}
ReaderCanStep(r) ==
    reader[r].pc \in {"probe_latest", "probe_historical"} \/ ReadLockFree
WriterInFlight(w) == ~WriterAtRest(w)
WriterCanStep(w) ==
    CASE wpc[w] = "lock" -> wbit = NoThread
      [] wpc[w] = "wait" -> NoReaders
      [] OTHER -> TRUE

\* C7: no thread waits forever.  Whenever calls are in progress, one of them
\* can take its next step.
C7_NoThreadWaitsForever ==
    ((\E r \in Readers : ReaderInFlight(r)) \/ (\E w \in Committers : WriterInFlight(w)))
    => \/ \E r \in Readers : ReaderInFlight(r) /\ ReaderCanStep(r)
       \/ \E w \in Committers : WriterInFlight(w) /\ WriterCanStep(w)

\* What a read handler returns when it is evaluated against chain index S.
EvalRead(op, id, S) ==
    CASE op = "header" -> header(S, id)
      [] op = "block_status" -> block_status(S, id)
      [] op = "block" -> block(S, id)
      [] op = "transactions_by_block" -> transactions_by_block(S, id)
      [] OTHER -> transaction_status(S, id)

ChainedReads ==
    {"header", "block_status", "block", "transactions_by_block", "transaction_status"}

\* C8: no torn reads.  The result of a read that chains several lookups is the
\* result of the whole read against one of the states the chain index went
\* through.
C8_NoTornReads ==
    \A r \in Readers :
        (reader[r].pc = "done" /\ reader[r].op \in ChainedReads)
        => \E k \in 1..Len(hist) :
               reader[r].res = EvalRead(reader[r].op, reader[r].id, hist[k])

\* C9: round trip between the selectors.  For every committed block number n
\* with h = block_hash_by_num(n), block(Num(n)) and block(Hash(h)) return the
\* same block, and block_number_by_hash(h) = n.
C9_RoundTrip ==
    CallerFree => \A n \in DOMAIN storage.block_hashes :
        LET h == block_hash_by_num(storage, n) IN
        /\ IsSome(h)
        /\ IsSome(block(storage, Num(n)))
        /\ block(storage, Num(n)) = block(storage, Hash(h.val))
        /\ block_number_by_hash(storage, h.val) = Some(n)

\* Witness of C9: two blocks are committed, and the block read by number and
\* by hash carries the two transactions committed with it.
C9_Witness ==
    /\ Quiescent
    /\ DOMAIN storage.block_hashes = {0, 1}
    /\ block(storage, Hash("h0a")) = block(storage, Num(0))
    /\ IsSome(block(storage, Num(0)))
    /\ Len(block(storage, Num(0)).val.body) = 2

\* The number of transactions of the first i commits.
RECURSIVE TotalTxs(_)
TotalTxs(i) == IF i = 0 THEN 0 ELSE TotalTxs(i - 1) + Len(BodyOf(log[i]))

NeverCommittedNumber(n) == \A i \in 1..Len(log) : NumberOf(log[i]) # n
NeverCommittedHash(h) == \A i \in 1..Len(log) : HashOf(log[i]) # h
NeverCommittedTx(t) ==
    \A i \in 1..Len(log) : \A j \in 1..Len(BodyOf(log[i])) : BodyOf(log[i])[j].hash # t
NeverCommitted(id) ==
    IF IsNum(id) THEN NeverCommittedNumber(id.num) ELSE NeverCommittedHash(id.hash)

TxReadOps == {"transaction_status", "transaction_block_num_and_hash"}

\* Every read of the chain index and of the registry, for a block selector,
\* returns not found.
BlockAbsent(id) ==
    /\ header(storage, id) = None
    /\ block_status(storage, id) = None
    /\ block(storage, id) = None
    /\ block_with_tx_hashes(storage, id) = None
    /\ block_body_indices(storage, id) = None
    /\ transactions_by_block(storage, id) = None
    /\ transaction_count_by_block(storage, id) = None
    /\ \A idx \in 0..Len(storage.transactions) :
           transaction_by_block_and_idx(storage, id, idx) = None
    /\ receipts_by_block(storage, id) = None
    /\ state_update(storage, id) = None
    /\ state_root(storage, id) = None
    /\ historical(storage, historical_states, id) = None

\* Every read for a transaction hash returns not found.
TxAbsent(t) ==
    /\ transaction_by_hash(storage, t) = None
    /\ transaction_block_num_and_hash(storage, t) = None
    /\ transaction_status(storage, t) = None
    /\ receipt_by_hash(storage, t) = None

\* C11: absence correctness.  In every reachable state, a call of any read
\* handler returns not found, and never a fault, for a block number, a block
\* hash or a transaction hash that was never committed; blocks_in_range over
\* numbers never committed returns the empty list; and a read in flight that
\* returns for such a selector returns not found.
C11_AbsenceCorrectness ==
    /\ CallerFree =>
           /\ \A id \in BlockIds : NeverCommitted(id) => BlockAbsent(id)
           /\ \A n \in BlockNumbers :
                  NeverCommittedNumber(n) => block_hash_by_num(storage, n) = None
           /\ \A h \in BlockHashes :
                  NeverCommittedHash(h) => block_number_by_hash(storage, h) = None
           /\ \A t \in TxHashes : NeverCommittedTx(t) => TxAbsent(t)
           /\ \A first \in BlockNumbers, last \in BlockNumbers :
                  (\A n \in first..last : NeverCommittedNumber(n))
                  => blocks_in_range(storage, first, last, << >>) = Ok(<< >>)
    /\ \A r \in Readers :
           reader[r].pc = "done" =>
               /\ (reader[r].op \in ReadOps /\ NeverCommitted(reader[r].id))
                  => reader[r].res = None
               /\ (reader[r].op \in TxReadOps /\ NeverCommittedTx(reader[r].id))
                  => reader[r].res = None
               /\ (reader[r].op = "latest_then_historical"
                   /\ NeverCommitted(reader[r].id.block))
                  => reader[r].res.historical = None

\* Witness of C11: block h0a (number 0, transactions A and B) is committed, and
\* block_with_tx_hashes has returned not found for the hash of h0b, a block
\* with the committed number 0 whose hash was never committed.
C11_Witness ==
    /\ Len(log) = 1 /\ HashOf(log[1]) = "h0a"
    /\ NeverCommittedTx("C") /\ TxAbsent("C")
    /\ \E r \in Readers :
           /\ reader[r].pc = "done"
           /\ reader[r].op = "block_with_tx_hashes"
           /\ reader[r].id = Hash("h0b")
           /\ reader[r].res = None

\* A step of the commit path that writes the chain index or the current state.
CommitWrites ==
    \E w \in Committers :
        /\ wpc[w] \in {"wait", "indexed"}
        /\ wpc'[w] \in {"indexed", "updated"}

\* C12: the chain index and the current state are mutated only inside the
\* commit path.  A step that changes a chain-index table, or a storage slot,
\* nonce or class-hash binding read through latest(), is a step of
\* insert_block_with_states_and_receipts.
C12_MutatedOnlyInCommit ==
    [][(storage' # storage \/ state' # state) => CommitWrites]_vars

\* C13: transaction membership.  For every transaction hash h that a committed
\* block b introduced, transaction_block_num_and_hash(h) is (number of b, hash
\* of b), transaction_by_hash(h) is the transaction committed with h, and
\* transaction_status(h) is the status committed with b, whatever was
\* committed after b.
C13_TransactionMembership ==
    \A i \in 1..Len(log) :
        \A j \in 1..Len(BodyOf(log[i])) :
            LET h == BodyOf(log[i])[j].hash IN
            /\ transaction_block_num_and_hash(storage, h)
                   = Some(<<NumberOf(log[i]), HashOf(log[i])>>)
            /\ transaction_by_hash(storage, h) = Some(BodyOf(log[i])[j])
            /\ transaction_status(storage, h) = Some(log[i].block.status)

\* The commit with arguments a carried the block that the selector names.
Names(id, a) == IF IsNum(id) THEN NumberOf(a) = id.num ELSE HashOf(a) = id.hash

\* C14: transactions_by_block and receipts_by_block return None for a block
\* selector that is not in the store, Some(list) for every committed block,
\* and Some(empty list) for a block committed with no transactions.
C14_ListsByBlock ==
    \A id \in BlockIds :
        LET txs == transactions_by_block(storage, id)
            receipts == receipts_by_block(storage, id)
        IN  IF NeverCommitted(id)
            THEN txs = None /\ receipts = None
            ELSE /\ IsSome(txs) /\ IsSome(receipts)
                 /\ (\E i \in 1..Len(log) : Names(id, log[i]) /\ BodyOf(log[i]) = << >>)
                    => (txs = Some(<< >>) /\ receipts = Some(<< >>))

\* C15: bounded slicing.  For every block in the store with body indices
\* {tx_offset, tx_count} and every local index idx,
\* transaction_by_block_and_idx returns not found when idx >= tx_count, and
\* otherwise the transaction with number tx_offset + idx, which is a
\* transaction of that block.
C15_BoundedSlicing ==
    CallerFree => \A id \in BlockIds :
        LET indices == block_body_indices(storage, id) IN
        IsSome(indices) =>
            \A idx \in 0..Len(storage.transactions) :
                LET tx == transaction_by_block_and_idx(storage, id, idx)
                    n == indices.val.tx_offset + idx
                IN  IF idx >= indices.val.tx_count
                    THEN tx = None
                    ELSE /\ n < Len(storage.transactions)
                         /\ tx = Some(TxWithHash(storage.transaction_hashes[n],
                                                 storage.transactions[n + 1]))
                         /\ storage.transaction_block[n] = BlockNumOf(storage, id).val

\* Witness of C15: block 0 holds transactions number 0 and 1, block 1 holds
\* number 2; index 1 of block 0 is B, and index 2 of block 0 is not found
\* although transaction number 2 exists.
C15_Witness ==
    /\ block_body_indices(storage, Num(0)) = Some(StoredBlockBodyIndices(0, 2))
    /\ block_body_indices(storage, Num(1)) = Some(StoredBlockBodyIndices(2, 1))
    /\ transaction_by_block_and_idx(storage, Num(0), 1) = Some(TxWithHash("B", TxOf("B")))
    /\ transaction_by_block_and_idx(storage, Hash("h0a"), 2) = None
    /\ IsSome(TxNumbered(storage, 2))

\* C16: state updates are retained permanently.  Once a block is committed
\* with diff D, state_update for its number and for its hash returns D in
\* every later state.
C16_StateUpdateRetained ==
    \A i \in 1..Len(log) :
        /\ state_update(storage, Num(NumberOf(log[i]))) = Some(log[i].states)
        /\ state_update(storage, Hash(HashOf(log[i]))) = Some(log[i].states)

\* Thread w is inside the commit, past self.storage.write().
InCommit(w) == wpc[w] \in {"wait", "indexed", "updated", "snapped"}

\* The state st reads, for every slot, nonce and class-hash binding, what the
\* diffs of the first i commits wrote last.
ReadsDiffs(st, i) ==
    \A a \in Addresses :
        /\ \A k \in StorageKeys :
               StorageAt(st, a, k) = LastWrite(i, "storage_updates", Slot(a, k))
        /\ NonceAt(st, a) = LastWrite(i, "nonce_updates", a)
        /\ ClassHashAt(st, a) = LastWrite(i, "contract_updates", a)

\* C17: concurrent commits are serialized.  When two threads call the commit,
\* at most one of them is past self.storage.write(); the commit in progress is
\* the last one of the history until it ends; the snapshot it takes holds the
\* whole diffs of the commits up to it and nothing else (in behaviours without
\* direct state writes); and the transactions of each commit have consecutive
\* numbers, in the order of the commits.
C17_CommitsSerialized ==
    /\ \A w \in Committers, v \in Committers : (InCommit(w) /\ InCommit(v)) => w = v
    /\ \A w \in Committers :
           wpc[w] \in {"indexed", "updated", "snapped"} =>
               /\ LastArgs.by = w
               /\ (writes = 0 /\ wpc[w] = "indexed") => ReadsDiffs(state, Len(log) - 1)
               /\ (writes = 0 /\ wpc[w] = "updated") => ReadsDiffs(state, Len(log))
               /\ (writes = 0 /\ wpc[w] = "snapped") => ReadsDiffs(wsnap[w].val, Len(log))
    /\ \A i \in 1..Len(log) :
           \A j \in 1..Len(BodyOf(log[i])) :
               LET n == TotalTxs(i - 1) + j - 1 IN
               /\ storage.transaction_hashes[n] = BodyOf(log[i])[j].hash
               /\ storage.transaction_block[n] = NumberOf(log[i])

\* Witness of C17: thread w2 has called the commit of h1a and waits for the
\* write guard while thread w1, inside the commit of h0a, has taken its
\* snapshot.
C17_Witness ==
    /\ wpc["w1"] = "snapped" /\ HashOf(wargs["w1"]) = "h0a"
    /\ wpc["w2"] = "lock" /\ HashOf(wargs["w2"]) = "h1a"
    /\ StorageAt(wsnap["w1"].val, "addr1", "key1") = Some(5)

\* The states st and snap read the same value for every storage slot, nonce
\* and class-hash binding.
SameReads(st, snap) ==
    \A a \in Addresses :
        /\ \A k \in StorageKeys : StorageAt(st, a, k) = StorageAt(snap, a, k)
        /\ NonceAt(st, a) = NonceAt(snap, a)
        /\ ClassHashAt(st, a) = ClassHashAt(snap, a)

CrossIndexReads ==
    {"block", "block_with_tx_hashes", "transactions_by_block",
     "transaction_block_num_and_hash"}

\* C19: cross-index coherence.  In every state, the per-number tables of the
\* chain index have the same keys, every transaction number below the length
\* of the transactions array has a hash and a block, and every block a
\* transaction is bound to has a hash; so no call of block_with_tx_hashes,
\* transactions_by_block or transaction_block_num_and_hash faults, whether it
\* runs alone or with commits between its lookups.
C19_CrossIndexCoherence ==
    /\ DOMAIN storage.block_headers = DOMAIN storage.block_hashes
    /\ DOMAIN storage.block_statusses = DOMAIN storage.block_hashes
    /\ DOMAIN storage.block_body_indices = DOMAIN storage.block_hashes
    /\ DOMAIN storage.state_update = DOMAIN storage.block_hashes
    /\ \A n \in 0..(Len(storage.transactions) - 1) :
           /\ n \in DOMAIN storage.transaction_hashes
           /\ n \in DOMAIN storage.transaction_block
    /\ \A n \in DOMAIN storage.transaction_block :
           storage.transaction_block[n] \in DOMAIN storage.block_hashes
    /\ CallerFree =>
           /\ \A id \in BlockIds :
                  /\ block_with_tx_hashes(storage, id) # Fault
                  /\ transactions_by_block(storage, id) # Fault
           /\ \A t \in TxHashes : transaction_block_num_and_hash(storage, t) # Fault
    /\ \A r \in Readers :
           (reader[r].pc = "done" /\ reader[r].op \in CrossIndexReads)
           => reader[r].res # Fault

\* Witness of C19: with blocks h0a and h1a committed, block_with_tx_hashes has
\* returned block 0 with the hashes A and B, and transaction C is bound to
\* block 1 with hash h1a.
C19_Witness ==
    /\ Len(log) = 2 /\ HashOf(log[1]) = "h0a" /\ HashOf(log[2]) = "h1a"
    /\ transaction_block_num_and_hash(storage, "C") = Some(<<1, "h1a">>)
    /\ \E r \in Readers :
           /\ reader[r].pc = "done"
           /\ reader[r].op = "block_with_tx_hashes"
           /\ IsSome(reader[r].res)
           /\ reader[r].res.val.body = <<"A", "B">>

\* C20: the latest pointers are coherent.  After at least one commit,
\* latest_number() is the number of the block committed last, latest_hash()
\* is its hash, and the two tables map them to each other.
C20_LatestPointers ==
    Len(log) > 0 =>
        /\ latest_number(storage) = NumberOf(LastArgs)
        /\ latest_hash(storage) = HashOf(LastArgs)
        /\ block_hash_by_num(storage, latest_number(storage)) = Some(latest_hash(storage))
        /\ block_number_by_hash(storage, latest_hash(storage))
               = Some(latest_number(storage))

\* Witness of C20: block 1 was committed before block 0; the latest number is
\* 0, the number committed last, and not 1, the largest.
C20_Witness ==
    /\ Len(log) = 2 /\ HashOf(log[1]) = "h1a" /\ HashOf(log[2]) = "h0a"
    /\ latest_number(storage) = 0
    /\ latest_hash(storage) = "h0a"
    /\ 1 \in DOMAIN storage.block_hashes

====
